---- MODULE Spec2Model ----
(***************************************************************************)
(* Model of benchmark.py: the per-benchmark build/compare loop and the     *)
(* combine() report pipeline (read the CSV datasets, write the raw sheet,  *)
(* merge the label column, highlight, average, write the summary, save).   *)
(*                                                                         *)
(* Cell texts are sequences of one-character strings, so that str.find,    *)
(* slicing, float() and the "in" tests of the source are computed on the   *)
(* characters.  Header texts and names are sequences of words.  Numbers    *)
(* are integers counting thousandths (every delta of the datasets has at   *)
(* most three decimals); a quotient is kept as the pair numerator /        *)
(* denominator until format() rounds it.                                   *)
(***************************************************************************)
EXTENDS Integers, Sequences, FiniteSets, TLC

\* ------------------------------------------------------------------ bounds
MaxBench == 2
MaxPrior == 2

\* ------------------------------------------------------- program constants
\* configs, in insertion order; the first one is the baseline.
configs == <<"Original", "Pre-RA", "Post-RA", "Both">>

\* Stride and height of a merged label block: the literals 4 and row + 3.
BlockRows == 4

\* Shape of the accumulator array: 6 categories x 3 scheduling variants.
NumCategories == 6
NumVariants == 3

\* First highlighted / averaged column: iter_cols(3) and row[2:].
FirstMetricCol == 3

\* Sheet name of this run.
time == "Nov 04, 2026 10:00:00 AM"

\* ------------------------------------------------------- Python primitives
\* The value of an empty cell (distinct from every text, "None" included).
None == <<"NoneType">>

Digits == <<"0", "1", "2", "3", "4", "5", "6", "7", "8", "9">>

IsDigit(c) == \E d \in 1..10 : Digits[d] = c

DigitOf(c) == (CHOOSE d \in 1..10 : Digits[d] = c) - 1

\* x in s, for a one-character x.
HasChar(s, c) == \E k \in 1..Len(s) : s[k] = c

\* s.find(c): the 0-based index of the first occurrence, -1 when absent.
PyFind(s, c) ==
    IF HasChar(s, c)
    THEN (CHOOSE k \in 1..Len(s) : s[k] = c /\ \A m \in 1..(k - 1) : s[m] # c) - 1
    ELSE -1

\* s[a:b] for a >= 0 and b >= -1 (a negative bound counts from the end).
PySlice(s, a, b) ==
    LET hi == IF b < 0 THEN (IF Len(s) + b < 0 THEN 0 ELSE Len(s) + b)
              ELSE (IF b > Len(s) THEN Len(s) ELSE b)
        lo == IF a > Len(s) THEN Len(s) ELSE a
    IN  IF lo >= hi THEN <<>> ELSE SubSeq(s, lo + 1, hi)

\* words in header, for a sequence of whole words.
HasWords(header, words) ==
    \E k \in 0..(Len(header) - Len(words)) :
        \A m \in 1..Len(words) : header[k + m] = words[m]

RECURSIVE DigitsValue(_)
DigitsValue(s) ==
    IF s = <<>> THEN 0
    ELSE 10 * DigitsValue(SubSeq(s, 1, Len(s) - 1)) + DigitOf(s[Len(s)])

RECURSIVE Strip(_)
Strip(s) ==
    IF s = <<>> THEN s
    ELSE IF s[1] = " " THEN Strip(Tail(s))
    ELSE IF s[Len(s)] = " " THEN Strip(SubSeq(s, 1, Len(s) - 1))
    ELSE s

\* float(s) for decimal literals: surrounding blanks, an optional sign,
\* digits with at most one point and at least one digit.  The result is in
\* thousandths; ok = FALSE stands for ValueError.
PyFloat(s) ==
    LET t == Strip(s)
        signed == t # <<>> /\ t[1] \in {"+", "-"}
        body == IF signed THEN Tail(t) ELSE t
        dot == PyFind(body, ".")
        ip == IF dot < 0 THEN body ELSE SubSeq(body, 1, dot)
        fp == IF dot < 0 THEN <<>> ELSE SubSeq(body, dot + 2, Len(body))
        wellformed == /\ Len(ip) + Len(fp) > 0
                      /\ \A k \in 1..Len(ip) : IsDigit(ip[k])
                      /\ \A k \in 1..Len(fp) : IsDigit(fp[k])
        fp3 == SubSeq(fp \o <<"0", "0", "0">>, 1, 3)
        mag == 1000 * DigitsValue(ip) + DigitsValue(fp3)
    IN  IF wellformed
        THEN [ok |-> TRUE, val |-> IF signed /\ t[1] = "-" THEN 0 - mag ELSE mag]
        ELSE [ok |-> FALSE, val |-> 0]

RECURSIVE DecimalText(_)
DecimalText(n) ==
    IF n < 10 THEN <<Digits[n + 1]>>
    ELSE DecimalText(n \div 10) \o <<Digits[(n % 10) + 1]>>

\* f"{x:.3f}" for the quotient x.num / x.den of thousandths: a "-" for a
\* negative x (also when it rounds to zero), then the magnitude rounded to
\* the nearest thousandth (an exact tie goes to the even neighbour).
Fixed3(x) ==
    LET a == IF x.num < 0 THEN 0 - x.num ELSE x.num
        q == a \div x.den
        r == a % x.den
        m == IF 2 * r > x.den \/ (2 * r = x.den /\ q % 2 = 1) THEN q + 1 ELSE q
        f == m % 1000
    IN  (IF x.num < 0 THEN <<"-">> ELSE <<>>)
            \o DecimalText(m \div 1000) \o <<".">>
            \o <<Digits[(f \div 100) + 1], Digits[((f \div 10) % 10) + 1], Digits[(f % 10) + 1]>>

format(x) ==
    LET sign == IF x.num > 0 THEN <<"+">> ELSE <<>>
    IN  sign \o Fixed3(x)

\* ------------------------------------------------------------- benchmarks
\* Directory names under benchmarks/, listed here in lexicographic order.
AllNames == <<"aes", "base64", "regex", "ripgrep">>

Universe == {AllNames[k] : k \in 1..MaxBench}

Rank(name) == CHOOSE k \in 1..Len(AllNames) : AllNames[k] = name

\* sorted(paths): ascending by name.
RECURSIVE sorted(_)
sorted(S) ==
    IF S = {} THEN <<>>
    ELSE LET least == CHOOSE n \in S : \A m \in S : Rank(n) <= Rank(m)
         IN  <<least>> \o sorted(S \ {least})

\* Every order in which iterdir() may return the directory entries.
Listings == {l \in [1..MaxBench -> Universe] : \A a, b \in 1..MaxBench : a # b => l[a] # l[b]}

\* ---------------------------------------------------------------- datasets
\* Header line of "Gadget Quality.csv".
CsvHeader ==
    << <<"Package", "Variant">>,
       <<"Number", "of", "ROP", "Gadgets">>, <<"Average", "ROP", "Gadget", "Quality">>,
       <<"Number", "of", "JOP", "Gadgets">>, <<"Average", "JOP", "Gadget", "Quality">>,
       <<"Number", "of", "COP", "Gadgets">>, <<"Average", "COP", "Gadget", "Quality">> >>

Abs == <<"5", ".", "0", "0", "0">>
NegAbs == <<"-", "5", ".", "0", "0", "0">>
Plus1 == <<"+", "1", ".", "0", "0", "0">>
Plus2 == <<"+", "2", ".", "0", "0", "0">>
Minus1 == <<"-", "1", ".", "0", "0", "0">>
MinusHalf == <<"-", "0", ".", "5", "0", "0">>
Zero == <<"0", ".", "0", "0", "0">>
NotANumber == <<"n", "/", "a">>

\* "<absolute value> (<signed delta>)"
WithDelta(a, d) == a \o <<" ", "(">> \o d \o <<")">>

\* A dataset row: the variant label, then one cell per metric category.
CsvRow(label, cells) == <<label>> \o cells

Each(cell) == [j \in 1..NumCategories |-> cell]

BaselineRow == CsvRow(<<"Original">>, Each(Abs))

UniformRows(d) ==
    <<BaselineRow>> \o [i \in 1..NumVariants |-> CsvRow(<<configs[i + 1]>>, Each(WithDelta(Abs, d)))]

MixedDelta(i, j) ==
    IF i = 1 THEN (IF j % 2 = 1 THEN Plus2 ELSE MinusHalf)
    ELSE IF i = 2 THEN (IF j <= 2 THEN Zero ELSE Minus1)
    ELSE (IF j <= 3 THEN Minus1 ELSE Plus1)

MixedRows ==
    <<BaselineRow>> \o [i \in 1..NumVariants |->
        CsvRow(<<configs[i + 1]>>, [j \in 1..NumCategories |-> WithDelta(Abs, MixedDelta(i, j))])]

\* The same deltas next to absolute values that carry a sign of their own.
SignedRows ==
    <<CsvRow(<<"Original">>, Each(NegAbs))>> \o [i \in 1..NumVariants |->
        CsvRow(<<configs[i + 1]>>, [j \in 1..NumCategories |-> WithDelta(NegAbs, MixedDelta(i, j))])]

\* The files a comparison can leave behind, by dataset id.
\*   "plus", "minus", "mixed", "signed": one baseline row and one row per variant;
\*   "nan": one delta is not a number;  "bare": one variant cell has no delta;
\*   "five": a fifth row;  "three": the last variant row is missing;
\*   "empty": a file read_csv rejects;  "absent": no file.
Rows(id) ==
    CASE id = "plus" -> UniformRows(Plus1)
      [] id = "minus" -> UniformRows(Minus1)
      [] id = "mixed" -> MixedRows
      [] id = "signed" -> SignedRows
      [] id = "nan" -> [UniformRows(Plus1) EXCEPT ![3][4] = WithDelta(Abs, NotANumber)]
      [] id = "bare" -> [UniformRows(Plus1) EXCEPT ![2][3] = Abs]
      [] id = "five" -> UniformRows(Minus1) \o <<CsvRow(<<"Extra">>, Each(WithDelta(Abs, Plus1)))>>
      [] id = "three" -> SubSeq(UniformRows(Plus1), 1, 3)
      [] OTHER -> <<>>

WellFormedIds == {"plus", "minus", "mixed", "signed"}
ReadableIds == WellFormedIds \cup {"nan", "bare", "five", "three"}
DatasetIds == ReadableIds \cup {"empty", "absent"}

\* pd.read_csv(csv) followed by df.insert(0, "Benchmark", csv.parent.name).
read_csv(name, id) == [r \in 1..Len(Rows(id)) |-> <<(<<name>>)>> \o Rows(id)[r]]

\* ------------------------------------------------------------ worksheets
\* A worksheet: its title (base name and the numeric suffix openpyxl adds to
\* a duplicate, 0 for none), the cells that exist, the merged ranges
\* <<first row, first column, last row, last column>> and the centred cells.
EmptyCell == [value |-> None, style |-> "Normal"]

Max(S) == CHOOSE x \in S : \A y \in S : y <= x

max_row(ws) == IF DOMAIN ws.cells = {} THEN 1 ELSE Max({rc[1] : rc \in DOMAIN ws.cells})

max_column(ws) == IF DOMAIN ws.cells = {} THEN 1 ELSE Max({rc[2] : rc \in DOMAIN ws.cells})

\* cell.value of ws.cell(r, c); a cell that does not exist yet reads as None.
Value(ws, r, c) == IF <<r, c>> \in DOMAIN ws.cells THEN ws.cells[<<r, c>>].value ELSE None

Style(ws, r, c) == IF <<r, c>> \in DOMAIN ws.cells THEN ws.cells[<<r, c>>].style ELSE "Normal"

\* Cells of the rectangle that do not exist yet, created empty.
Created(ws, r1, c1, r2, c2) ==
    [rc \in ((r1..r2) \X (c1..c2)) \ DOMAIN ws.cells |-> EmptyCell]

\* ws.cell(r, c, value)
SetValue(ws, r, c, v) ==
    [ws EXCEPT !.cells = (<<r, c>> :> [value |-> v, style |-> Style(ws, r, c)]) @@ @]

\* ws.merge_cells(...): the range is recorded, every cell but the top-left
\* one becomes an empty merged cell.
merge_cells(ws, r1, c1, r2, c2) ==
    [ws EXCEPT !.merged = @ \cup {<<r1, c1, r2, c2>>},
               !.cells = [rc \in ((r1..r2) \X (c1..c2)) \ {<<r1, c1>>} |-> EmptyCell]
                            @@ Created(ws, r1, c1, r1, c1) @@ @]

\* cell.alignment = Alignment(vertical="center", horizontal="center")
Center(ws, r, c) == [ws EXCEPT !.centered = @ \cup {<<r, c>>}]

\* data.to_excel(writer, sheet_name=..., index=False): the header row, then
\* one sheet row per row of the frame.
to_excel(title, data) ==
    LET header == <<(<<"Benchmark">>)>> \o CsvHeader
    IN  [title |-> title,
         cells |-> [rc \in (1..(Len(data) + 1)) \X (1..Len(header)) |->
                        [value |-> IF rc[1] = 1 THEN header[rc[2]] ELSE data[rc[1] - 1][rc[2]],
                         style |-> "Normal"]],
         merged |-> {},
         centered |-> {}]

\* openpyxl's avoid_duplicate_name: a title already in use gets the next
\* free numeric suffix.
NewTitle(book, base) ==
    LET used == {book[k].title.n : k \in {m \in 1..Len(book) : book[m].title.base = base}}
    IN  [base |-> base, n |-> IF 0 \in used THEN Max(used) + 1 ELSE 0]

\* ------------------------------------------------------------- highlight()
highlight(ws, r, c) ==
    LET header == Value(ws, 1, c)
        value == Value(ws, r, c)
        quality == HasWords(header, <<"Gadget", "Quality">>)
        number == HasWords(header, <<"Number">>)
        style == IF (HasChar(value, "+") /\ quality) \/ (HasChar(value, "-") /\ number) THEN "Good"
                 ELSE IF (HasChar(value, "-") /\ quality) \/ (HasChar(value, "+") /\ number) THEN "Bad"
                 ELSE IF HasChar(value, "(") THEN "Neutral"
                 ELSE Style(ws, r, c)
    IN  [ws EXCEPT !.cells = (<<r, c>> :> [value |-> value, style |-> style]) @@ @]

\* ------------------------------------------------- the stages of combine()
\* pd.concat(dataframes, ignore_index=True)
RECURSIVE concat(_)
concat(frames) == IF frames = <<>> THEN <<>> ELSE Head(frames) \o concat(Tail(frames))

\* The writer always opened with mode "w".
ExcelWriterOverwrite(book, frame) == <<to_excel([base |-> time, n |-> 0], frame)>>

\* with pd.ExcelWriter(output, mode, if_sheet_exists) as writer: to_excel.
\* An absent document (<<>>) is created with the one sheet; an existing one
\* is loaded, gets the sheet appended under a fresh title, and is rewritten.
ExcelWriter(book, frame) == Append(book, to_excel(NewTitle(book, time), frame))

\* for row in range(2, ws.max_row, 4): merge_cells(row .. row + 3), centre.
RECURSIVE MergeBlocks(_, _, _)
MergeBlocks(ws, row, stop) ==
    IF row >= stop THEN ws
    ELSE MergeBlocks(Center(merge_cells(ws, row, 1, row + (BlockRows - 1), 1), row, 1),
                     row + BlockRows, stop)

\* The blocks counted from the header row.
MergeLabelsFromHeader(ws) == MergeBlocks(ws, 1, max_row(ws))

MergeLabels(ws) == MergeBlocks(ws, 2, max_row(ws))

\* for row in ws.iter_cols(3): for each cell below the header whose value
\* is not None: highlight(ws, cell).
HighlightData(ws) ==
    LET grid == [ws EXCEPT !.cells = Created(ws, 1, FirstMetricCol, max_row(ws), max_column(ws)) @@ @]
    IN  [grid EXCEPT !.cells =
            [rc \in DOMAIN grid.cells |->
                IF rc[1] >= 2 /\ rc[2] >= FirstMetricCol /\ grid.cells[rc].value # None
                THEN highlight(grid, rc[1], rc[2]).cells[rc]
                ELSE grid.cells[rc]]]

\* cell.value[cell.value.find('(') + 1 : cell.value.find(')')]
difference(value) == PySlice(value, PyFind(value, "(") + 1, PyFind(value, ")"))

\* The block taken to start at its baseline row's predecessor.
srowOffByOne(benchmark) == benchmark * BlockRows + 1

\* srow = benchmark * 4 + 2, for the 0-based benchmark index.
srow(benchmark) == benchmark * BlockRows + 2

\* The sheet cells the averaging loops visit for n benchmarks: rows
\* srow + 1 .. srow + 3 of every block, columns 3 .. max_column.
Visited(ws, n) ==
    {<<srow(b) + i, c>> : b \in 0..(n - 1), i \in 1..(BlockRows - 1), c \in FirstMetricCol..max_column(ws)}

\* A visited cell on which the loop raises: an empty cell has no find(),
\* a seventh metric column has no accumulator, float() rejects the text.
Raises(ws, r, c) ==
    \/ Value(ws, r, c) = None
    \/ c - FirstMetricCol >= NumCategories
    \/ ~PyFloat(difference(Value(ws, r, c))).ok

AverageRaises(ws, n) == \E rc \in Visited(ws, n) : Raises(ws, rc[1], rc[2])

RECURSIVE Accumulate(_, _, _, _)
Accumulate(ws, n, i, j) ==
    IF n = 0 \/ FirstMetricCol + j - 1 > max_column(ws) THEN 0
    ELSE Accumulate(ws, n - 1, i, j)
            + PyFloat(difference(Value(ws, srow(n - 1) + i, FirstMetricCol + j - 1))).val

\* averages[i][j] after the accumulation loops (1-based here), in thousandths.
Sums(ws, n) == [i \in 1..NumVariants |-> [j \in 1..NumCategories |-> Accumulate(ws, n, i, j)]]

\* The flags row and the average rows: lines 184-202.
RECURSIVE WriteAverages(_, _, _, _, _)
WriteAverages(ws, sums, n, lrow, k) ==
    IF k >= NumVariants * NumCategories THEN ws
    ELSE LET i == k \div NumCategories
             j == k % NumCategories
             text == format([num |-> sums[i + 1][j + 1], den |-> n])
         IN  WriteAverages(highlight(SetValue(ws, lrow + i, FirstMetricCol + j, text),
                                     lrow + i, FirstMetricCol + j),
                           sums, n, lrow, k + 1)

RECURSIVE WriteConfigs(_, _, _)
WriteConfigs(ws, lrow, i) ==
    IF i >= Len(configs) - 1 THEN ws
    ELSE WriteConfigs(SetValue(ws, lrow + i, 2, <<configs[i + 2]>>), lrow, i + 1)

WriteSummary(ws, sums, n, extra) ==
    LET frow == max_row(ws) + 2
        w1 == merge_cells(ws, frow, 2, frow, 9)
        w2 == SetValue(w1, frow, 1, <<"Extra", "Flags">>)
        w3 == SetValue(w2, frow, 2, IF extra # <<>> THEN extra ELSE <<"None">>)
        lrow == frow + 1
        w4 == merge_cells(w3, lrow, 1, lrow + 2, 1)
        w5 == Center(SetValue(w4, lrow, 1, <<"Average", "Difference">>), lrow, 1)
        w6 == WriteConfigs(w5, lrow, 0)
    IN  WriteAverages(w6, sums, n, lrow, 0)

\* Lines 159-202 on a freshly written sheet, for a run that does not raise.
Finish(ws, n, extra) ==
    LET marked == HighlightData(MergeLabels(ws))
    IN  WriteSummary(marked, Sums(marked, n), n, extra)

\* wb.active instead: the first sheet of a loaded document.
FirstSheet(book) == IF book = <<>> THEN 0 ELSE 1

\* ws = wb[wb.sheetnames[-1]]: the position of the sheet combine() formats.
Active(book) == Len(book)

\* ------------------------------------------- documents left by earlier runs
EarlierTime == "Nov 03, 2026 09:30:00 PM"

\* The k-th earlier run: even runs happened within the second of this one.
RECURSIVE PriorDoc(_)
PriorDoc(k) ==
    IF k = 0 THEN <<>>
    ELSE LET book == PriorDoc(k - 1)
             base == IF k % 2 = 0 THEN time ELSE EarlierTime
             frame == read_csv(AllNames[1], IF k % 2 = 0 THEN "plus" ELSE "mixed")
         IN  Append(book, Finish(to_excel(NewTitle(book, base), frame), 1, <<>>))

\* ------------------------------------------------------------------- state
VARIABLES
    benchmarks,   \* the benchmark list after the selection of lines 40-52
    flags,        \* args.flags
    pc,           \* position of the script
    done,         \* number of benchmarks the main loop has been through
    files,        \* names of the benchmarks whose dataset path was appended
    results,      \* dataset found at each benchmark's "Gadget Quality.csv"
    previous,     \* the document on disk when the run started
    output,       \* results.xlsx on disk: its sheets, <<>> when absent
    data,         \* the concatenated frame
    wb,           \* the workbook loaded at line 159
    averages,     \* the accumulator array
    lrow          \* first row of the average block, 0 before it is written

vars == <<benchmarks, flags, pc, done, files, results, previous, output, data, wb, averages, lrow>>

ArgFlags == {<<>>, <<"-O2">>}

\* The lists -b accepts besides "all": the available names.
Selections == (SUBSET Universe) \ {{}}

Init ==
    /\ \E listing \in Listings :
          \/ benchmarks = listing
          \/ \E selected \in Selections :
                benchmarks = sorted({listing[k] : k \in {m \in 1..Len(listing) : listing[m] \in selected}})
    /\ flags \in ArgFlags
    /\ pc = "loop"
    /\ done = 0
    /\ files = <<>>
    /\ results = [b \in Universe |-> "absent"]
    /\ previous \in {PriorDoc(k) : k \in 0..MaxPrior}
    /\ output = previous
    /\ data = <<>>
    /\ wb = <<>>
    /\ averages = [i \in 1..NumVariants |-> [j \in 1..NumCategories |-> 0]]
    /\ lrow = 0

\* One iteration of the main loop in which build() or compare() raises:
\* cargo or the analyzer exits non-zero, or build() returns no path and
\* paths[0] fails.  The benchmark is reported and skipped.
BenchmarkFails ==
    /\ pc = "loop"
    /\ done < Len(benchmarks)
    /\ done' = done + 1
    /\ UNCHANGED <<benchmarks, flags, pc, files, results, previous, output, data, wb, averages, lrow>>

\* One iteration in which both succeed: the path is appended.  What lies at
\* that path is the analyzer's output, or with --skip-compare whatever an
\* earlier comparison left there, possibly nothing.
BenchmarkSucceeds ==
    /\ pc = "loop"
    /\ done < Len(benchmarks)
    /\ \E id \in DatasetIds :
          results' = [results EXCEPT ![benchmarks[done + 1]] = id]
    /\ files' = Append(files, benchmarks[done + 1])
    /\ done' = done + 1
    /\ UNCHANGED <<benchmarks, flags, pc, previous, output, data, wb, averages, lrow>>

\* The loop is over: combine(files) is called.
CallCombine ==
    /\ pc = "loop"
    /\ done = Len(benchmarks)
    /\ pc' = "read"
    /\ UNCHANGED <<benchmarks, flags, done, files, results, previous, output, data, wb, averages, lrow>>

\* Lines 136-144.  read_csv raises on an absent or unreadable file, concat
\* on an empty list; the exception leaves combine().
ReadDatasets ==
    /\ pc = "read"
    /\ IF files = <<>> \/ \E k \in 1..Len(files) : results[files[k]] \notin ReadableIds
       THEN /\ pc' = "error"
            /\ data' = data
       ELSE /\ pc' = "write"
            /\ data' = concat([k \in 1..Len(files) |-> read_csv(files[k], results[files[k]])])
    /\ UNCHANGED <<benchmarks, flags, done, files, results, previous, output, wb, averages, lrow>>

\* Lines 146-156: the writer puts the raw sheet into the document on disk.
WriteSheet ==
    /\ pc = "write"
    /\ output' = ExcelWriter(output, data)
    /\ pc' = "merge"
    /\ UNCHANGED <<benchmarks, flags, done, files, results, previous, data, wb, averages, lrow>>

\* Lines 159-165: reload the document, merge the labels of its last sheet.
MergeStep ==
    /\ pc = "merge"
    /\ wb' = [output EXCEPT ![Active(output)] = MergeLabels(@)]
    /\ pc' = "highlight"
    /\ UNCHANGED <<benchmarks, flags, done, files, results, previous, output, data, averages, lrow>>

\* Lines 167-170.
HighlightStep ==
    /\ pc = "highlight"
    /\ wb' = [wb EXCEPT ![Active(wb)] = HighlightData(@)]
    /\ pc' = "average"
    /\ UNCHANGED <<benchmarks, flags, done, files, results, previous, output, data, averages, lrow>>

\* Lines 172-181: one block per entry of benchmarks.
AverageStep ==
    /\ pc = "average"
    /\ IF AverageRaises(wb[Active(wb)], Len(benchmarks))
       THEN /\ pc' = "error"
            /\ averages' = averages
       ELSE /\ pc' = "summary"
            /\ averages' = Sums(wb[Active(wb)], Len(benchmarks))
    /\ UNCHANGED <<benchmarks, flags, done, files, results, previous, output, data, wb, lrow>>

\* Lines 183-202.
SummaryStep ==
    /\ pc = "summary"
    /\ lrow' = max_row(wb[Active(wb)]) + 3
    /\ wb' = [wb EXCEPT ![Active(wb)] = WriteSummary(@, averages, Len(benchmarks), flags)]
    /\ pc' = "save"
    /\ UNCHANGED <<benchmarks, flags, done, files, results, previous, output, data, averages>>

\* Line 204.
Save ==
    /\ pc = "save"
    /\ output' = wb
    /\ pc' = "done"
    /\ UNCHANGED <<benchmarks, flags, done, files, results, previous, data, wb, averages, lrow>>

Next ==
    \/ BenchmarkFails
    \/ BenchmarkSucceeds
    \/ CallCombine
    \/ ReadDatasets
    \/ WriteSheet
    \/ MergeStep
    \/ HighlightStep
    \/ AverageStep
    \/ SummaryStep
    \/ Save

Spec == Init /\ [][Next]_vars

\* ------------------------------------------------------------ vocabulary
Range(seq) == {seq[k] : k \in 1..Len(seq)}

\* Benchmarks whose build() or compare() raised.
Skipped == {benchmarks[k] : k \in 1..done} \ Range(files)

\* Every dataset handed to combine() has one baseline row and one row per
\* variant, each variant cell with a numeric delta in parentheses.
AllWellFormed == \A k \in 1..Len(files) : results[files[k]] \in WellFormedIds

EveryBenchmarkContributes == files = benchmarks /\ files # <<>> /\ AllWellFormed

Formatted == pc \in {"save", "done"}

\* The sheet of this run, once the workbook is loaded.
ws == wb[Len(wb)]

MetricCols == FirstMetricCol..(FirstMetricCol + NumCategories - 1)

DataRows == 2..(Len(data) + 1)

\* Merged regions of column 1 that start in the data rows.
LabelRegions(sheet) == {m \in sheet.merged : m[2] = 1 /\ m[4] = 1 /\ m[1] \in DataRows}

Sign(n) == IF n > 0 THEN 1 ELSE IF n < 0 THEN -1 ELSE 0

\* The style the classification table assigns to a delta of sign sg under a
\* header.
TableStyle(header, sg) ==
    LET quality == HasWords(header, <<"Gadget", "Quality">>)
    IN  IF sg = 0 THEN "Neutral"
        ELSE IF (quality /\ sg > 0) \/ (~quality /\ sg < 0) THEN "Good"
        ELSE "Bad"

HasDelta(value) == HasChar(value, "(") /\ HasChar(value, ")")

NumericDelta(value) == HasDelta(value) /\ PyFloat(difference(value)).ok

\* The delta of variant i, category j in the dataset of benchmark b.
DatasetDelta(b, i, j) == PyFloat(difference(Rows(results[b])[i + 1][j + 1])).val

RECURSIVE DeltaTotal(_, _, _)
DeltaTotal(k, i, j) ==
    IF k = 0 THEN 0 ELSE DeltaTotal(k - 1, i, j) + DatasetDelta(benchmarks[k], i, j)

\* ------------------------------------------------------------------ claims

\* C1: when build() or compare() raised for one benchmark and another one
\* succeeded (with a well-formed dataset), the run reaches the final save and
\* the report holds the blocks of the succeeding benchmarks.
C1_RunSurvivesFailedBenchmark ==
    (pc \in {"done", "error"} /\ Skipped # {} /\ files # <<>> /\ AllWellFormed)
        => /\ pc = "done"
           /\ Len(data) = Len(configs) * Len(files)

\* C2: a missing or unreadable dataset file of one benchmark does not abort
\* the run; the report is produced from the datasets of the others.
C2_UnreadableDatasetIsLocal ==
    (/\ pc \in {"done", "error"}
     /\ Skipped = {}
     /\ \E k \in 1..Len(files) : results[files[k]] \notin ReadableIds
     /\ \E k \in 1..Len(files) : results[files[k]] \in WellFormedIds
     /\ \A k \in 1..Len(files) : results[files[k]] \in WellFormedIds \cup {"absent", "empty"})
        => pc = "done"

C4_EarlierSheetsUntouched ==
    previous # <<>> =>
        /\ SubSeq(output, 1, Len(previous)) = previous
        /\ wb # <<>> => SubSeq(wb, 1, Len(previous)) = previous /\ Len(wb) = Len(previous) + 1
        /\ Len(output) = Len(previous) + (IF pc \in {"loop", "read", "write"} \/ (pc = "error" /\ wb = <<>>) THEN 0 ELSE 1)
        /\ \A a, b \in 1..Len(output) : a # b => output[a].title # output[b].title

C4_AppendedToSameTimestamp ==
    /\ pc = "done"
    /\ Len(previous) = 2
    /\ Len(output) = 3
    /\ output[3].title = [base |-> time, n |-> 1]
    /\ output[3].merged # {}

C6_ClassifiedByDeltaSign ==
    pc \in {"average", "summary", "save", "done"} =>
        \A r \in DataRows, c \in MetricCols :
            LET value == Value(ws, r, c)
            IN  /\ value = data[r - 1][c]
                /\ NumericDelta(value) =>
                      Style(ws, r, c) = TableStyle(Value(ws, 1, c), Sign(PyFloat(difference(value)).val))
                /\ ~HasDelta(value) => Style(ws, r, c) = "Normal"

\* C7: when every benchmark contributes a well-formed block, the summary
\* cell of variant i and category j shows the sum of the benchmarks' deltas
\* at row i, column j of their datasets (the baseline row left out), divided
\* by the number of benchmarks; benchmarks that all carry the delta d give d.
C7_SummaryIsMean ==
    (Formatted /\ EveryBenchmarkContributes) =>
        \A i \in 1..NumVariants, j \in 1..NumCategories :
            /\ Value(ws, lrow + i - 1, FirstMetricCol + j - 1)
                  = format([num |-> DeltaTotal(Len(benchmarks), i, j), den |-> Len(benchmarks)])
            /\ (\A b \in Range(benchmarks) : results[b] = "plus")
                  => Value(ws, lrow + i - 1, FirstMetricCol + j - 1) = Plus1
            /\ (\A b \in Range(benchmarks) : results[b] = "minus")
                  => Value(ws, lrow + i - 1, FirstMetricCol + j - 1) = Minus1

C7_UniformDeltasAveraged ==
    /\ pc = "done"
    /\ EveryBenchmarkContributes
    /\ Len(benchmarks) = 2
    /\ \A b \in Range(benchmarks) : results[b] = "plus"
    /\ Value(output[Len(output)], lrow, FirstMetricCol) = Plus1

\* C8: benchmarks are built, compared and placed into the report in
\* lexicographic order of their names, with or without a selection.
C8_LexicographicOrder ==
    \A a, b \in 1..Len(files) : a < b => Rank(files[a]) < Rank(files[b])

\* C9: every average cell has the style a data cell with a delta of the same
\* sign has under the same header; an average of zero is Neutral.
C9_SummaryStyledLikeData ==
    (Formatted /\ EveryBenchmarkContributes) =>
        \A i \in 1..NumVariants, j \in 1..NumCategories :
            Style(ws, lrow + i - 1, FirstMetricCol + j - 1)
                = TableStyle(Value(ws, 1, FirstMetricCol + j - 1), Sign(averages[i][j]))

\* C10: the averaging loops get past a cell only by adding the number between
\* its parentheses; a cell without a numeric delta in parentheses aborts the
\* run before any summary row is written.
C10_OnlyParenthesizedDeltasAveraged ==
    pc \in {"summary", "save", "done"} =>
        \A rc \in Visited(ws, Len(benchmarks)) : NumericDelta(Value(ws, rc[1], rc[2]))

====
